---------------------------- MODULE Spec2Model ----------------------------
(***************************************************************************)
(* Model of the audio pipeline of backend/app: process_audio_file and its  *)
(* helpers (audio_pipeline.py), the upload handler create_upload_file      *)
(* (main.py) and the command-line driver main (run_pipeline.py).           *)
(*                                                                         *)
(* Texts are sequences of one-character strings.  Offsets of spans are the *)
(* 0-based half-open offsets of Python slices.                             *)
(***************************************************************************)
EXTENDS Integers, Sequences, FiniteSets, TLC

VARIABLES
    entry,            \* who calls process_audio_file: "direct", "http", "cli"
    response,         \* speech_client.recognize(...): results -> alternatives
    audio,            \* what _calculate_snr measures on the audio file
    pc,               \* position inside process_audio_file
    results,          \* the results dict (key -> value)
    score,            \* locals of the scoring stage
    fp_err,           \* sign of the rounding error of the double combined_score
    redacted_regex,   \* local of process_audio_file (line 123)
    doc_ents,         \* doc.ents as the entity recogniser returned them
    entities,         \* _redact_pii_ner: sorted entities not yet visited
    redacted_text,    \* _redact_pii_ner: the text being rewritten
    tts_text,         \* text handed to the synthesis engine
    stages,           \* history: stages executed, in order
    raised,           \* exception leaving process_audio_file / the call
    h_pc,             \* position inside create_upload_file
    upload_exists,    \* does uploads/<uuid><ext> exist on disk
    upload_created,   \* history: the handler created the upload file
    remove_fault,     \* history: os.remove was called on a missing file
    http_status,      \* 0 (no answer yet), 200, 400, 500
    cli_pc,           \* position inside main of run_pipeline.py
    cli_exit          \* -1 (running), 0, 1

vars == <<entry, response, audio, pc, results, score, fp_err, redacted_regex,
          doc_ents, entities, redacted_text, tts_text, stages, raised,
          h_pc, upload_exists, upload_created, remove_fault, http_status,
          cli_pc, cli_exit>>

-----------------------------------------------------------------------------
(* Characters *)

Digits == {"0", "1", "2", "3", "4", "5", "6", "7", "8", "9"}

Letters ==
    {"a", "b", "c", "d", "e", "f", "g", "h", "i", "j", "k", "l", "m",
     "n", "o", "p", "q", "r", "s", "t", "u", "v", "w", "x", "y", "z",
     "A", "B", "C", "D", "E", "F", "G", "H", "I", "J", "K", "L", "M",
     "N", "O", "P", "Q", "R", "S", "T", "U", "V", "W", "X", "Y", "Z"}

\* \w of the re module
WordChars == Digits \cup Letters \cup {"_"}

\* \s of the re module (of the characters the transcripts use)
SpaceChars == {" "}

Min(a, b) == IF a < b THEN a ELSE b

\* Python slice text[lo:hi] with 0 <= lo, clamped to the text as Python does
Slice(text, lo, hi) == SubSeq(text, lo + 1, Min(hi, Len(text)))

\* text.endswith(suffix)
EndsWith(text, suffix) ==
    /\ Len(suffix) <= Len(text)
    /\ SubSeq(text, Len(text) - Len(suffix) + 1, Len(text)) = suffix

\* does pat occur in text starting at 1-based index i
OccursAt(text, pat, i) ==
    /\ i >= 1
    /\ i + Len(pat) - 1 <= Len(text)
    /\ SubSeq(text, i, i + Len(pat) - 1) = pat

\* pat in text
Contains(text, pat) == \E i \in 1..(Len(text) + 1) : OccursAt(text, pat, i)

-----------------------------------------------------------------------------
(* _redact_pii_regex *)

TagPrefix == <<"[", "R", "E", "D", "A", "C", "T", "E", "D", "_">>

LabelChars(label) ==
    CASE label = "CREDIT_CARD" -> <<"C", "R", "E", "D", "I", "T", "_", "C", "A", "R", "D">>
      [] label = "SSN"         -> <<"S", "S", "N">>
      [] label = "PHONE"       -> <<"P", "H", "O", "N", "E">>
      [] label = "PERSON"      -> <<"P", "E", "R", "S", "O", "N">>
      [] label = "DATE"        -> <<"D", "A", "T", "E">>
      [] label = "GPE"         -> <<"G", "P", "E">>
      [] label = "ORG"         -> <<"O", "R", "G">>
      [] label = "CARDINAL"    -> <<"C", "A", "R", "D", "I", "N", "A", "L">>

\* f'[REDACTED_{label}]'
Tag(label) == TagPrefix \o LabelChars(label) \o <<"]">>

\* the keys of the patterns dict, in insertion order
PatternOrder == <<"CREDIT_CARD", "SSN", "PHONE">>

IsWordAt(text, i) == i >= 1 /\ i <= Len(text) /\ text[i] \in WordChars

\* \b just before 1-based index i (i = Len + 1: at the end of the text)
WordBoundary(text, i) == IsWordAt(text, i - 1) # IsWordAt(text, i)

\* \d{n} at index i
DigitsAt(text, i, n) ==
    /\ i + n - 1 <= Len(text)
    /\ \A j \in i..(i + n - 1) : text[j] \in Digits

\* [seps]? at index i: the index after it
SkipOptional(text, i, seps) ==
    IF i <= Len(text) /\ text[i] \in seps THEN i + 1 ELSE i

\* [seps]* at index i, all of it: the index after it
RECURSIVE SkipAll(_, _, _)
SkipAll(text, i, seps) ==
    IF i <= Len(text) /\ text[i] \in seps THEN SkipAll(text, i + 1, seps) ELSE i

\* \b\d{g1}[seps]?\d{g2}[seps]?\d{g3}\b tried at index i: the index after the
\* match, 0 when it does not match there
MatchGroups(text, i, g1, g2, g3, seps) ==
    LET b == SkipOptional(text, i + g1, seps)
        d == SkipOptional(text, b + g2, seps)
    IN  IF /\ WordBoundary(text, i)
           /\ DigitsAt(text, i, g1)
           /\ DigitsAt(text, b, g2)
           /\ DigitsAt(text, d, g3)
           /\ WordBoundary(text, d + g3)
        THEN d + g3
        ELSE 0

CardMinDigits == 13

CardMaxDigits == 16

\* (?:\d[ -]*?){13,16}\b after k digits, pos the index after the k-th digit.
\* The separators are lazy and the repetition greedy: the engine leaves at
\* the first digit, from the 13th on, that a \b follows, and a digit that a
\* separator follows is always followed by a \b.
RECURSIVE CardWalk(_, _, _)
CardWalk(text, pos, k) ==
    IF k >= CardMinDigits /\ ~IsWordAt(text, pos)
    THEN pos
    ELSE IF k = CardMaxDigits
         THEN 0
         ELSE LET q == SkipAll(text, pos, {" ", "-"})
              IN  IF q <= Len(text) /\ text[q] \in Digits
                  THEN CardWalk(text, q + 1, k + 1)
                  ELSE 0

\* \b(?:\d[ -]*?){13,16}\b tried at index i
MatchCard(text, i) ==
    IF WordBoundary(text, i) /\ i <= Len(text) /\ text[i] \in Digits
    THEN CardWalk(text, i + 1, 1)
    ELSE 0

\* patterns[pii_type] tried at index i
MatchAt(pii_type, text, i) ==
    CASE pii_type = "CREDIT_CARD" -> MatchCard(text, i)
      [] pii_type = "SSN"   -> MatchGroups(text, i, 3, 2, 4, {"-"} \cup SpaceChars)
      [] pii_type = "PHONE" -> MatchGroups(text, i, 3, 3, 4, {"-", "."} \cup SpaceChars)

\* re.sub(pattern, tag, text) from index i on: leftmost matches, left to right
RECURSIVE ReSub(_, _, _)
ReSub(pii_type, text, i) ==
    IF i > Len(text)
    THEN <<>>
    ELSE LET e == MatchAt(pii_type, text, i)
         IN  IF e # 0
             THEN Tag(pii_type) \o ReSub(pii_type, text, e)
             ELSE <<text[i]>> \o ReSub(pii_type, text, i + 1)

\* for pii_type, pattern in patterns.items(): redacted_text = re.sub(...)
RECURSIVE RedactLoop(_, _)
RedactLoop(text, k) ==
    IF k > Len(PatternOrder)
    THEN text
    ELSE RedactLoop(ReSub(PatternOrder[k], text, 1), k + 1)

RedactPiiRegex(text) == RedactLoop(text, 1)

-----------------------------------------------------------------------------
(* _redact_pii_ner *)

\* the labels line 49 redacts
RedactedLabels == {"PERSON", "DATE", "GPE", "ORG"}

\* sorted(..., key=start_char, reverse=True): where e goes in a list already
\* sorted by descending start; equal keys keep their order (the sort is stable)
RECURSIVE InsertDesc(_, _)
InsertDesc(sorted, e) ==
    IF sorted = <<>>
    THEN <<e>>
    ELSE IF Head(sorted).start_char >= e.start_char
         THEN <<Head(sorted)>> \o InsertDesc(Tail(sorted), e)
         ELSE <<e>> \o sorted

\* mutant of SortedDesc: the entities are visited in the order given
SortedDesc_AsGiven(ents) == ents

RECURSIVE SortedDesc(_)
SortedDesc(ents) ==
    IF ents = <<>>
    THEN <<>>
    ELSE InsertDesc(SortedDesc(SubSeq(ents, 1, Len(ents) - 1)), ents[Len(ents)])

\* redacted_text[:start_char] + f'[REDACTED_{label_}]' + redacted_text[end_char:]
Splice(text, ent) ==
    Slice(text, 0, ent.start_char)
        \o Tag(ent.label_)
        \o Slice(text, ent.end_char, Len(text))

\* one iteration of the loop of lines 48-50
SpliceStep(text, ent) ==
    IF ent.label_ \in RedactedLabels THEN Splice(text, ent) ELSE text

-----------------------------------------------------------------------------
(* _summarize_text *)

SentenceSep == <<".", " ">>

MaxSentences == 3

\* text.split(sep) from index i on, the current piece starting at index from
RECURSIVE SplitFrom(_, _, _, _)
SplitFrom(text, sep, i, from) ==
    IF i + Len(sep) - 1 > Len(text)
    THEN <<SubSeq(text, from, Len(text))>>
    ELSE IF OccursAt(text, sep, i)
         THEN <<SubSeq(text, from, i - 1)>>
                  \o SplitFrom(text, sep, i + Len(sep), i + Len(sep))
         ELSE SplitFrom(text, sep, i + 1, from)

Split(text, sep) == SplitFrom(text, sep, 1, 1)

\* sep.join(parts)
RECURSIVE Join(_, _)
Join(sep, parts) ==
    IF parts = <<>>
    THEN <<>>
    ELSE IF Len(parts) = 1
         THEN parts[1]
         ELSE parts[1] \o sep \o Join(sep, Tail(parts))

SummarizeText(text) ==
    LET sentences == Split(text, SentenceSep)
        summary   == Join(SentenceSep,
                          SubSeq(sentences, 1, Min(MaxSentences, Len(sentences))))
    IN  IF EndsWith(summary, <<".">>) THEN summary ELSE summary \o <<".">>

-----------------------------------------------------------------------------
(* Numbers of the scoring stage.  A double is modelled by the exact value   *)
(* it approximates, num/den with den >= 0: den = 0 is +inf (num > 0), -inf   *)
(* (num < 0) or nan (num = 0).                                               *)

RECURSIVE Gcd(_, _)
Gcd(a, b) == IF b = 0 THEN a ELSE Gcd(b, a % b)

Abs(a) == IF a < 0 THEN -a ELSE a

Norm(r) ==
    LET g == Gcd(Abs(r.num), r.den)
    IN  IF g = 0 THEN r ELSE [num |-> r.num \div g, den |-> r.den \div g]

Fin(n, d) == Norm([num |-> n, den |-> d])

PosInf == [num |-> 1, den |-> 0]

NaN == [num |-> 0, den |-> 0]

IsNaN(r) == r.num = 0 /\ r.den = 0

\* a > b on doubles: false as soon as one side is nan
Gt(a, b) == ~IsNaN(a) /\ ~IsNaN(b) /\ a.num * b.den > b.num * a.den

Lt(a, b) == Gt(b, a)

Add(a, b) == Norm([num |-> a.num * b.den + b.num * a.den, den |-> a.den * b.den])

Sub(a, b) == Norm([num |-> a.num * b.den - b.num * a.den, den |-> a.den * b.den])

Mul(a, b) == Norm([num |-> a.num * b.num, den |-> a.den * b.den])

\* the builtin max(a, b): a unless b > a
PyMax(a, b) == IF Gt(b, a) THEN b ELSE a

\* the builtin min(a, b): a unless b < a
PyMin(a, b) == IF Lt(b, a) THEN b ELSE a

RECURSIVE SumSeq(_)
SumSeq(s) == IF s = <<>> THEN 0 ELSE Head(s) + SumSeq(Tail(s))

\* np.mean of confidences given in hundredths; nan for an empty list
Mean(confidences) ==
    IF confidences = <<>>
    THEN NaN
    ELSE Fin(SumSeq(confidences), 100 * Len(confidences))

\* _calculate_snr: audio.db is 10 * log10(signal_power / noise_power)
CalculateSnr(a) == IF a.noise_power_positive THEN Fin(a.db, 1) ELSE PosInf

\* _calculate_word_perplexity
CalculateWordPerplexity(words) ==
    LET avg_confidence == Mean(words)
    IN  IF Gt(avg_confidence, Fin(0, 1))
        THEN [num |-> avg_confidence.den, den |-> avg_confidence.num]
        ELSE PosInf

\* mutant of SnrNormalized: the upper clamp is missing
SnrNormalized_NoUpperClamp(snr) ==
    PyMax(Mul(Sub(snr, Fin(10, 1)), Fin(1, 20)), Fin(0, 1))

\* min(max((snr - 10) / 20, 0), 1)
SnrNormalized(snr) ==
    PyMin(PyMax(Mul(Sub(snr, Fin(10, 1)), Fin(1, 20)), Fin(0, 1)), Fin(1, 1))

\* max(1 - (perplexity - 1), 0)
PerplexityNormalized(perplexity) ==
    PyMax(Sub(Fin(1, 1), Sub(perplexity, Fin(1, 1))), Fin(0, 1))

\* alternative.confidence: a float field of the response message reads 0.0
\* when the engine did not set it
ApiConfidence(alternative) ==
    IF alternative.confidence_reported
    THEN Fin(alternative.confidence, 100)
    ELSE Fin(0, 1)

\* 0.5 * api_confidence + 0.3 * snr_normalized + 0.2 * perplexity_normalized
Combine(api_confidence, snr_normalized, perplexity_normalized) ==
    Add(Add(Mul(Fin(5, 10), api_confidence), Mul(Fin(3, 10), snr_normalized)),
        Mul(Fin(2, 10), perplexity_normalized))

\* The sign of (the double the code computes - the double nearest the exact
\* value).  The products and sums of line 113 round, so the sign is open,
\* except at the two ends: every term 0 gives exactly 0.0, every term at its
\* maximum gives 0.5 + 0.3 + 0.2 = 1.0 exactly, and rounding is monotonic.
ErrSigns(exact) ==
    IF exact = Fin(0, 1) \/ exact = Fin(1, 1) THEN {0} ELSE {-1, 0, 1}

\* combined_score > threshold, on the doubles
ScoreGt(exact, err, threshold) ==
    \/ Gt(exact, threshold)
    \/ exact = threshold /\ err > 0

HighThreshold == Fin(85, 100)

MediumThreshold == Fin(70, 100)

\* mutant of ConfidenceLevel: the HIGH threshold is not strict
ConfidenceLevel_NotStrict(exact, err) ==
    IF ScoreGt(exact, err, HighThreshold) \/ (exact = HighThreshold /\ err = 0)
    THEN "HIGH"
    ELSE IF ScoreGt(exact, err, MediumThreshold) THEN "MEDIUM"
    ELSE "LOW"

\* lines 115-117
ConfidenceLevel(exact, err) ==
    IF ScoreGt(exact, err, HighThreshold) THEN "HIGH"
    ELSE IF ScoreGt(exact, err, MediumThreshold) THEN "MEDIUM"
    ELSE "LOW"

DigitChar(d) ==
    CASE d = 0 -> "0" [] d = 1 -> "1" [] d = 2 -> "2" [] d = 3 -> "3"
      [] d = 4 -> "4" [] d = 5 -> "5" [] d = 6 -> "6" [] d = 7 -> "7"
      [] d = 8 -> "8" [] d = 9 -> "9"

\* the text of h hundredths, 0 <= h < 1000: "0.95"
HundredthsText(h) ==
    <<DigitChar(h \div 100), ".", DigitChar((h \div 10) % 10), DigitChar(h % 10)>>

\* f"{combined_score:.2f}" for a score >= 0: the nearest hundredth; at an exact
\* tie the double decides, and with no rounding error either side is possible
\* (the double nearest a tie such as 0.225 lies on one side of it); "inf" and
\* "nan" for a value that is not finite
Format2f(exact, err) ==
    IF exact.den = 0
    THEN IF exact.num = 0 THEN {<<"n", "a", "n">>} ELSE {<<"i", "n", "f">>}
    ELSE LET lo  == (100 * exact.num) \div exact.den
             rem == 100 * exact.num - lo * exact.den
         IN  IF 2 * rem > exact.den THEN {HundredthsText(lo + 1)}
             ELSE IF 2 * rem < exact.den THEN {HundredthsText(lo)}
             ELSE IF err > 0 THEN {HundredthsText(lo + 1)}
             ELSE IF err < 0 THEN {HundredthsText(lo)}
             ELSE {HundredthsText(lo), HundredthsText(lo + 1)}

-----------------------------------------------------------------------------
(* The entity recogniser, nlp(text).ents: spans of whole tokens that do not *)
(* overlap, in any order.  A token is a run of word characters or a single  *)
(* other character that is not a space.                                      *)

MaxEnts == 2

EntityLabels == {"PERSON", "ORG", "CARDINAL"}

TokenStarts(text) ==
    {i \in 1..Len(text) :
        /\ text[i] \notin SpaceChars
        /\ (text[i] \notin WordChars \/ ~IsWordAt(text, i - 1))}

TokenEnds(text) ==
    {i \in 1..Len(text) :
        /\ text[i] \notin SpaceChars
        /\ (text[i] \notin WordChars \/ ~IsWordAt(text, i + 1))}

EntitySpans(text) ==
    {[start_char |-> p[1] - 1, end_char |-> p[2], label_ |-> l] :
        p \in {x \in TokenStarts(text) \X TokenEnds(text) : x[1] <= x[2]},
        l \in EntityLabels}

Overlap(a, b) == a.start_char < b.end_char /\ b.start_char < a.end_char

RECURSIVE EntsUpTo(_, _)
EntsUpTo(text, n) ==
    IF n = 0
    THEN {<<>>}
    ELSE LET shorter == EntsUpTo(text, n - 1)
         IN  shorter \cup
             UNION {{Append(q, e) :
                        e \in {x \in EntitySpans(text) :
                                  \A i \in 1..Len(q) : ~Overlap(q[i], x)}} :
                    q \in shorter}

DocEnts(text) == EntsUpTo(text, MaxEnts)

-----------------------------------------------------------------------------
(* Inputs *)

MaxWords == 2

T_Empty == <<>>

T_Hi == <<"H", "i">>

T_Crafted ==
    <<"C", "a", "l", "l", " ", "5", "5", "5", "-", "1", "2", "3", "-", "4",
      "5", "6", "7", " ", "o", "r", " ", "a", "s", "k", " ", "J", "o", "h", "n">>

T_Ssn ==
    <<"A", "n", "n", " ", "1", "2", "3", "-", "4", "5", "-", "6", "7", "8", "9">>

T_Card ==
    <<"4", "1", "1", "1", " ", "1", "1", "1", "1", " ", "1", "1", "1", "1",
      " ", "1", "1", "1", "1">>

T_Sentences == <<"A", ".", " ", "B", ".", " ", "C", ".", " ", "D">>

Transcripts == {T_Empty, T_Hi, T_Crafted, T_Ssn, T_Card, T_Sentences}

\* confidences in hundredths
ApiConfidences == {0, 60, 95, 100}

WordConfidences == {0, 50, 90, 100}

WordLists == UNION {[1..n -> WordConfidences] : n \in 0..MaxWords}

\* 10 * log10(signal_power / noise_power) in dB
SnrDbs == {-5, 0, 10, 20, 25, 30, 40}

Audios ==
    {[noise_power_positive |-> TRUE, db |-> d] : d \in SnrDbs}
        \cup {[noise_power_positive |-> FALSE, db |-> 0]}

CleanAudio == [noise_power_positive |-> TRUE, db |-> 30]

Alternative(t, reported, c, w) ==
    [transcript |-> t, confidence_reported |-> reported, confidence |-> c,
     words |-> w]

\* one result with one alternative
Recognized(alternative) == << <<alternative>> >>

\* every signal bundle, on one short transcript
ScoreCases ==
    {<<Recognized(Alternative(T_Hi, TRUE, c, w)), a>> :
        c \in ApiConfidences, w \in WordLists, a \in Audios}
    \cup
    {<<Recognized(Alternative(T_Hi, FALSE, 0, w)), a>> :
        w \in WordLists, a \in Audios}

\* every transcript, on one signal bundle
TextCases ==
    {<<Recognized(Alternative(t, TRUE, 100, <<100>>)), CleanAudio>> :
        t \in Transcripts}

\* no results; one result without alternatives
EmptyCases == {<< <<>>, CleanAudio >>, << << <<>> >>, CleanAudio >>}

InputCases == ScoreCases \cup TextCases \cup EmptyCases

Entries == {"direct", "http", "cli"}

-----------------------------------------------------------------------------
(* Calling process_audio_file *)

\* def process_audio_file(audio_path: str, output_dir: str)
ProcessParams == {"audio_path", "output_dir"}

DirectKwargs == {"audio_path", "output_dir"}

\* the keyword arguments of main.py:70-77
HandlerKwargs ==
    {"audio_path", "output_dir", "whisper_model", "summarizer", "analyzer",
     "anonymizer"}

\* the keyword arguments of run_pipeline.py:46-53
CliKwargs ==
    {"audio_path", "output_dir", "whisper_model", "summarizer", "analyzer",
     "anonymizer"}

\* Python binds a call when every keyword names a parameter and no parameter
\* without a default is left out; otherwise the call raises TypeError
Binds(kwargs) == kwargs \subseteq ProcessParams /\ ProcessParams \subseteq kwargs

EmptyDict == [k \in {} |-> <<>>]

NoScore == [set |-> FALSE]

Init ==
    /\ entry \in Entries
    /\ \E c \in InputCases : response = c[1] /\ audio = c[2]
    /\ pc = "idle"
    /\ results = EmptyDict
    /\ score = NoScore
    /\ fp_err = 0
    /\ redacted_regex = <<>>
    /\ doc_ents = <<>>
    /\ entities = <<>>
    /\ redacted_text = <<>>
    /\ tts_text = <<>>
    /\ stages = <<>>
    /\ raised = "none"
    /\ h_pc = "start"
    /\ upload_exists = FALSE
    /\ upload_created = FALSE
    /\ remove_fault = FALSE
    /\ http_status = 0
    /\ cli_pc = "start"
    /\ cli_exit = -1

pipelineVars ==
    <<pc, results, score, fp_err, redacted_regex, doc_ents, entities,
      redacted_text, tts_text, stages>>

callerVars ==
    <<h_pc, upload_exists, upload_created, remove_fault, http_status, cli_pc,
      cli_exit>>

inputVars == <<entry, response, audio>>

-----------------------------------------------------------------------------
(* process_audio_file *)

\* not response.results or not response.results[0].alternatives
NothingRecognized(r) == r = <<>> \/ r[1] = <<>>

\* where an exception leaving process_audio_file lands in its caller
RaiseToCaller ==
    /\ h_pc' = IF entry = "http" THEN "except" ELSE h_pc
    /\ http_status' = http_status
    /\ cli_pc' = IF entry = "cli" THEN "exited" ELSE cli_pc
    /\ cli_exit' = IF entry = "cli" THEN 1 ELSE cli_exit
    /\ UNCHANGED <<upload_exists, upload_created, remove_fault>>

\* lines 84-102
Transcribe ==
    /\ pc = "transcribe"
    /\ stages' = Append(stages, "transcribe")
    /\ IF NothingRecognized(response)
       THEN /\ raised' = "ValueError"
            /\ pc' = "raised"
            /\ results' = results
            /\ RaiseToCaller
       ELSE /\ results' = results @@ ("transcript" :> response[1][1].transcript)
            /\ pc' = "score"
            /\ UNCHANGED <<raised, callerVars>>
    /\ UNCHANGED <<inputVars, score, fp_err, redacted_regex, doc_ents, entities,
                   redacted_text, tts_text>>

\* lines 105-120
Score ==
    /\ pc = "score"
    /\ LET alternative == response[1][1]
           api_confidence == ApiConfidence(alternative)
           snr == CalculateSnr(audio)
           perplexity == CalculateWordPerplexity(alternative.words)
           snr_normalized == SnrNormalized(snr)
           perplexity_normalized == PerplexityNormalized(perplexity)
           combined_score ==
               Combine(api_confidence, snr_normalized, perplexity_normalized)
       IN  \E err \in ErrSigns(combined_score) :
           \E text \in Format2f(combined_score, err) :
              /\ score' = [set |-> TRUE,
                           api_confidence |-> api_confidence,
                           snr |-> snr,
                           perplexity |-> perplexity,
                           snr_normalized |-> snr_normalized,
                           perplexity_normalized |-> perplexity_normalized,
                           combined_score |-> combined_score]
              /\ fp_err' = err
              /\ results' = results
                     @@ ("confidence_score" :> text)
                     @@ ("confidence_level" :> ConfidenceLevel(combined_score, err))
    /\ stages' = Append(stages, "score")
    /\ pc' = "redact_regex"
    /\ UNCHANGED <<inputVars, redacted_regex, doc_ents, entities, redacted_text,
                   tts_text, raised, callerVars>>

\* line 123
RedactRegex ==
    /\ pc = "redact_regex"
    /\ redacted_regex' = RedactPiiRegex(results["transcript"])
    /\ stages' = Append(stages, "redact")
    /\ pc' = "ner_detect"
    /\ UNCHANGED <<inputVars, results, score, fp_err, doc_ents, entities,
                   redacted_text, tts_text, raised, callerVars>>

\* line 124 and lines 45-47: the entity recogniser reads the text the pattern
\* pass returned
NerDetect ==
    /\ pc = "ner_detect"
    /\ \E ents \in DocEnts(redacted_regex) :
          /\ doc_ents' = ents
          /\ entities' = SortedDesc(ents)
    /\ redacted_text' = redacted_regex
    /\ pc' = "ner_loop"
    /\ UNCHANGED <<inputVars, results, score, fp_err, redacted_regex, tts_text,
                   stages, raised, callerVars>>

\* lines 48-50: one iteration
NerSplice ==
    /\ pc = "ner_loop"
    /\ entities # <<>>
    /\ redacted_text' = SpliceStep(redacted_text, Head(entities))
    /\ entities' = Tail(entities)
    /\ UNCHANGED <<inputVars, pc, results, score, fp_err, redacted_regex,
                   doc_ents, tts_text, stages, raised, callerVars>>

\* line 51 and line 125
NerReturn ==
    /\ pc = "ner_loop"
    /\ entities = <<>>
    /\ results' = results @@ ("redacted_transcript" :> redacted_text)
    /\ pc' = "summarize"
    /\ UNCHANGED <<inputVars, score, fp_err, redacted_regex, doc_ents, entities,
                   redacted_text, tts_text, stages, raised, callerVars>>

\* the argument of _summarize_text at line 128
SummaryArgument(r) == r["transcript"]

\* lines 128-129
Summarize ==
    /\ pc = "summarize"
    /\ results' = results @@ ("summary" :> SummarizeText(SummaryArgument(results)))
    /\ stages' = Append(stages, "summarize")
    /\ pc' = "synthesize"
    /\ UNCHANGED <<inputVars, score, fp_err, redacted_regex, doc_ents, entities,
                   redacted_text, tts_text, raised, callerVars>>

\* f"summary_{uuid.uuid4()}.mp3"
SummaryAudioFilename == "summary_<uuid4>.mp3"

\* lines 132-133 and _text_to_speech
Synthesize ==
    /\ pc = "synthesize"
    /\ tts_text' = results["summary"]
    /\ results' = results @@ ("summary_audio_filename" :> SummaryAudioFilename)
    /\ stages' = Append(stages, "synthesize")
    /\ pc' = "return"
    /\ UNCHANGED <<inputVars, score, fp_err, redacted_regex, doc_ents, entities,
                   redacted_text, raised, callerVars>>

\* run_pipeline.py:58-103 after a successful call: line 92 reads
\* results['pii_results'], a KeyError when the dict has no such key
CliWriteOutputs(r) == IF "pii_results" \in DOMAIN r THEN 0 ELSE 1

\* line 135, and the caller's next statement
Return ==
    /\ pc = "return"
    /\ pc' = "done"
    /\ results' =
          IF entry = "http"
          THEN results @@ ("summary_audio_url" :> "/outputs/summary_<uuid4>.mp3")
          ELSE results
    /\ h_pc' = IF entry = "http" THEN "finally" ELSE h_pc
    /\ cli_pc' = IF entry = "cli" THEN "exited" ELSE cli_pc
    /\ cli_exit' = IF entry = "cli" THEN CliWriteOutputs(results) ELSE cli_exit
    /\ UNCHANGED <<inputVars, score, fp_err, redacted_regex, doc_ents, entities,
                   redacted_text, tts_text, stages, raised, upload_exists,
                   upload_created, remove_fault, http_status>>

\* a caller that passes the two parameters of the signature
DirectCall ==
    /\ entry = "direct"
    /\ pc = "idle"
    /\ IF Binds(DirectKwargs)
       THEN pc' = "transcribe" /\ raised' = raised
       ELSE pc' = "raised" /\ raised' = "TypeError"
    /\ UNCHANGED <<inputVars, results, score, fp_err, redacted_regex, doc_ents,
                   entities, redacted_text, tts_text, stages, callerVars>>

-----------------------------------------------------------------------------
(* create_upload_file (main.py) *)

\* os.remove(path): FileNotFoundError when the file is not there
OsRemove(exists) == [exists |-> FALSE, fault |-> ~exists]

\* lines 83-84
ExceptCleanup(exists) ==
    IF exists THEN OsRemove(exists) ELSE [exists |-> exists, fault |-> FALSE]

\* mutant of FinallyCleanup: the os.path.exists test is missing
FinallyCleanup_Unguarded(exists) == OsRemove(exists)

\* lines 88-89
FinallyCleanup(exists) ==
    IF exists THEN OsRemove(exists) ELSE [exists |-> exists, fault |-> FALSE]

\* lines 57-58
HandlerCheckType ==
    /\ entry = "http"
    /\ h_pc = "start"
    /\ \E is_audio \in BOOLEAN :
          IF is_audio
          THEN h_pc' = "copy" /\ http_status' = http_status
          ELSE h_pc' = "raised" /\ http_status' = 400
    /\ UNCHANGED <<inputVars, pipelineVars, raised, upload_exists,
                   upload_created, remove_fault, cli_pc, cli_exit>>

\* lines 61-67: open(upload_path, "wb") creates the file, then the copy
HandlerCopy ==
    /\ h_pc = "copy"
    /\ \E outcome \in {"open_raises", "copy_raises", "copied"} :
          /\ upload_exists' = (outcome # "open_raises")
          /\ upload_created' = (outcome # "open_raises")
          /\ IF outcome = "copied"
             THEN h_pc' = "call" /\ raised' = raised
             ELSE h_pc' = "except" /\ raised' = "OSError"
    /\ UNCHANGED <<inputVars, pipelineVars, remove_fault, http_status, cli_pc,
                   cli_exit>>

\* lines 70-77
HandlerCall ==
    /\ h_pc = "call"
    /\ IF Binds(HandlerKwargs)
       THEN /\ pc' = "transcribe"
            /\ h_pc' = "in_call"
            /\ raised' = raised
       ELSE /\ pc' = pc
            /\ h_pc' = "except"
            /\ raised' = "TypeError"
    /\ UNCHANGED <<inputVars, results, score, fp_err, redacted_regex, doc_ents,
                   entities, redacted_text, tts_text, stages, upload_exists,
                   upload_created, remove_fault, http_status, cli_pc, cli_exit>>

\* lines 81-85
HandlerExcept ==
    /\ h_pc = "except"
    /\ LET c == ExceptCleanup(upload_exists)
       IN  /\ upload_exists' = c.exists
           /\ remove_fault' = (remove_fault \/ c.fault)
    /\ http_status' = 500
    /\ h_pc' = "finally"
    /\ UNCHANGED <<inputVars, pipelineVars, raised, upload_created, cli_pc,
                   cli_exit>>

\* lines 86-91
HandlerFinally ==
    /\ h_pc = "finally"
    /\ LET c == FinallyCleanup(upload_exists)
       IN  /\ upload_exists' = c.exists
           /\ remove_fault' = (remove_fault \/ c.fault)
    /\ IF http_status = 500
       THEN h_pc' = "raised" /\ http_status' = http_status
       ELSE h_pc' = "returned" /\ http_status' = 200
    /\ UNCHANGED <<inputVars, pipelineVars, raised, upload_created, cli_pc,
                   cli_exit>>

-----------------------------------------------------------------------------
(* main (run_pipeline.py) *)

\* lines 25-32
CliCheckArgs ==
    /\ entry = "cli"
    /\ cli_pc = "start"
    /\ \E usable \in BOOLEAN :
          IF usable
          THEN cli_pc' = "call" /\ cli_exit' = cli_exit
          ELSE cli_pc' = "exited" /\ cli_exit' = 1
    /\ UNCHANGED <<inputVars, pipelineVars, raised, h_pc, upload_exists,
                   upload_created, remove_fault, http_status>>

\* lines 45-56
CliCall ==
    /\ cli_pc = "call"
    /\ IF Binds(CliKwargs)
       THEN /\ pc' = "transcribe"
            /\ cli_pc' = "in_call"
            /\ UNCHANGED <<raised, cli_exit>>
       ELSE /\ pc' = pc
            /\ raised' = "TypeError"
            /\ cli_pc' = "exited"
            /\ cli_exit' = 1
    /\ UNCHANGED <<inputVars, results, score, fp_err, redacted_regex, doc_ents,
                   entities, redacted_text, tts_text, stages, h_pc,
                   upload_exists, upload_created, remove_fault, http_status>>

-----------------------------------------------------------------------------

Next ==
    \/ DirectCall
    \/ Transcribe
    \/ Score
    \/ RedactRegex
    \/ NerDetect
    \/ NerSplice
    \/ NerReturn
    \/ Summarize
    \/ Synthesize
    \/ Return
    \/ HandlerCheckType
    \/ HandlerCopy
    \/ HandlerCall
    \/ HandlerExcept
    \/ HandlerFinally
    \/ CliCheckArgs
    \/ CliCall

Spec == Init /\ [][Next]_vars

-----------------------------------------------------------------------------
(* Properties *)

Range(f) == {f[i] : i \in DOMAIN f}

HandlerLeft == h_pc \in {"returned", "raised"}

\* C1: whenever create_upload_file created the temporary upload file, the
\* file is gone when the handler returns or raises, whatever the exit path,
\* and no os.remove is ever called on a file that is already gone.
C1_UploadReleased ==
    /\ (HandlerLeft /\ upload_created) => ~upload_exists
    /\ ~remove_fault

\* the handler created the file, the call raised, the except block removed
\* the file and the finally block ran after it
C1_Witness ==
    /\ h_pc = "raised"
    /\ upload_created
    /\ raised = "TypeError"
    /\ http_status = 500
    /\ ~upload_exists

\* the transcription result has no text
EmptyTranscription(r) == NothingRecognized(r) \/ r[1][1].transcript = <<>>

\* C2: a transcription result with empty text (no results, no alternatives,
\* or an empty transcript) makes process_audio_file raise the transcription
\* failure, and no stage after transcription runs.
C2_EmptyTextFailsFast ==
    (entry = "direct" /\ EmptyTranscription(response)) =>
        /\ pc \in {"idle", "transcribe", "raised"}
        /\ pc = "raised" => raised = "ValueError"
        /\ \A i \in DOMAIN stages : stages[i] = "transcribe"

PatternLabels == {PatternOrder[k] : k \in DOMAIN PatternOrder}

\* where the tags of the pattern pass stand in text: 0-based, half-open
PatternTagRanges(text) ==
    {[start_char |-> i - 1, end_char |-> i - 1 + Len(Tag(l)), label_ |-> l] :
        <<i, l>> \in {x \in (1..Len(text)) \X PatternLabels :
                         OccursAt(text, Tag(x[2]), x[1])}}

SplicedEnts == {e \in Range(doc_ents) : e.label_ \in RedactedLabels}

JohnSpan == [start_char |-> 29, end_char |-> 33, label_ |-> "PERSON"]

Expected_Crafted ==
    <<"C", "a", "l", "l", " ", "[", "R", "E", "D", "A", "C", "T", "E", "D",
      "_", "P", "H", "O", "N", "E", "]", " ", "o", "r", " ", "a", "s", "k",
      " ", "[", "R", "E", "D", "A", "C", "T", "E", "D", "_", "P", "E", "R",
      "S", "O", "N", "]">>

\* C3: the pattern span wins over an overlapping entity span and no
\* character is redacted twice: the entity pass rewrites nothing inside or
\* across a tag of the pattern pass, and "Call 555-123-4567 or ask John",
\* with a PERSON span on "John" and any entity span on the phone number,
\* comes out as "Call [REDACTED_PHONE] or ask [REDACTED_PERSON]".
C3_PatternSpanWins ==
    "redacted_transcript" \in DOMAIN results =>
        /\ \A e \in SplicedEnts :
              \A t \in PatternTagRanges(redacted_regex) : ~Overlap(e, t)
        /\ ( /\ results["transcript"] = T_Crafted
             /\ JohnSpan \in Range(doc_ents)
             /\ \A e \in Range(doc_ents) \ {JohnSpan} :
                   \E t \in PatternTagRanges(redacted_regex) : Overlap(e, t) )
           => results["redacted_transcript"] = Expected_Crafted

\* len(text.split())
WordCount(text) ==
    Cardinality({i \in 1..Len(text) :
                    /\ text[i] \notin SpaceChars
                    /\ (i = 1 \/ text[i - 1] \in SpaceChars)})

\* the sentinel the specification names; the source has no such string
TooShortSentinel ==
    <<"T", "e", "x", "t", " ", "t", "o", "o", " ", "s", "h", "o", "r", "t",
      " ", "t", "o", " ", "s", "u", "m", "m", "a", "r", "i", "z", "e", ".">>

\* C4: a transcript of fewer than 50 words gets the fixed "too short to
\* summarize" sentinel as its summary.
C4_ShortTextSentinel ==
    ("summary" \in DOMAIN results /\ WordCount(results["transcript"]) < 50)
        => results["summary"] = TooShortSentinel

InUnit(x) == x.den > 0 /\ 0 <= x.num /\ x.num <= x.den

\* C5: for api_confidence and word confidences in [0,1] and any SNR
\* (negative, above 30 dB, +inf) and any average confidence (zero included),
\* scoring raises nothing, and snr_norm, perplexity_norm and the combined
\* score all lie in [0,1].
C5_ScoresInUnit ==
    score.set =>
        /\ raised = "none"
        /\ InUnit(score.snr_normalized)
        /\ InUnit(score.perplexity_normalized)
        /\ InUnit(score.combined_score)
        /\ ~ScoreGt(score.combined_score, fp_err, Fin(1, 1))
        /\ ~(score.combined_score = Fin(0, 1) /\ fp_err < 0)

\* zero noise variance and zero average confidence together
C5_Witness ==
    /\ score.set
    /\ score.snr = PosInf
    /\ score.perplexity = PosInf
    /\ score.snr_normalized = Fin(1, 1)
    /\ score.perplexity_normalized = Fin(0, 1)

\* the level the thresholds of section 4.1 give the double combined_score
LevelOf(exact, err) ==
    IF Gt(exact, Fin(85, 100)) \/ (exact = Fin(85, 100) /\ err > 0) THEN "HIGH"
    ELSE IF Gt(exact, Fin(70, 100)) \/ (exact = Fin(70, 100) /\ err > 0)
         THEN "MEDIUM"
         ELSE "LOW"

\* api_confidence = 0.95, snr_db = 30, avg_confidence = 0.9
ExampleBundle ==
    /\ score.set
    /\ score.api_confidence = Fin(95, 100)
    /\ score.snr = Fin(30, 1)
    /\ score.perplexity = Fin(10, 9)

ThresholdsStrict ==
    score.set =>
        /\ results["confidence_level"] = LevelOf(score.combined_score, fp_err)
        /\ (score.combined_score = Fin(85, 100) /\ fp_err = 0)
              => results["confidence_level"] = "MEDIUM"
        /\ (score.combined_score = Fin(70, 100) /\ fp_err = 0)
              => results["confidence_level"] = "LOW"
        /\ (score.combined_score = Fin(60, 100))
              => results["confidence_level"] = "LOW"

\* C6 as amended: the level is HIGH exactly when the unrounded score is
\* > 0.85, MEDIUM exactly when it is > 0.70 and <= 0.85, LOW otherwise; the
\* example bundle is reported as "0.95" with level HIGH; 0.60 maps to LOW.
C6_LevelThresholds ==
    /\ ThresholdsStrict
    /\ ExampleBundle =>
          /\ results["confidence_score"] = <<"0", ".", "9", "5">>
          /\ results["confidence_level"] = "HIGH"

\* C6 as stated: the example bundle is reported as "0.91"
C6_AsStated ==
    /\ ThresholdsStrict
    /\ ExampleBundle =>
          /\ results["confidence_score"] = <<"0", ".", "9", "1">>
          /\ results["confidence_level"] = "HIGH"

\* the example bundle was scored
C6_Witness ==
    /\ ExampleBundle
    /\ results["confidence_score"] = <<"0", ".", "9", "5">>
    /\ results["confidence_level"] = "HIGH"

\* C7: with no api_confidence reported, its weight 0.5 is shared out over
\* the two other terms in proportion (0.3 : 0.2 becomes 0.6 : 0.4), so the
\* weights applied sum to 1 and snr_norm = perplexity_norm = 1 scores 1.0.
C7_WeightRedistributed ==
    (score.set /\ ~response[1][1].confidence_reported) =>
        /\ score.combined_score =
              Add(Mul(Fin(6, 10), score.snr_normalized),
                  Mul(Fin(4, 10), score.perplexity_normalized))
        /\ (score.snr_normalized = Fin(1, 1)
              /\ score.perplexity_normalized = Fin(1, 1))
              => score.combined_score = Fin(1, 1)

\* the tags standing in text, left to right
TagStarts(text) == {i \in 1..Len(text) : OccursAt(text, TagPrefix, i)}

\* the index of the "]" closing the tag that starts at index i
TagClose(text, i) ==
    IF \E j \in i..Len(text) : text[j] = "]"
    THEN CHOOSE j \in i..Len(text) :
            text[j] = "]" /\ \A k \in i..(j - 1) : text[k] # "]"
    ELSE Len(text)

\* text with each tag replaced by the text of the next record
RECURSIVE Restore(_, _, _)
Restore(text, i, records) ==
    IF i > Len(text)
    THEN <<>>
    ELSE IF OccursAt(text, TagPrefix, i) /\ records # <<>>
         THEN Head(records).text
                  \o Restore(text, TagClose(text, i) + 1, Tail(records))
         ELSE <<text[i]>> \o Restore(text, i + 1, records)

\* C8: the result carries one redaction record per tag of the redacted
\* transcript, each holding the substring of the original transcript its tag
\* replaced, and putting the records' texts back in place of the tags gives
\* the original transcript.
C8_RedactionRecords ==
    pc = "done" =>
        /\ "pii_results" \in DOMAIN results
        /\ Len(results["pii_results"])
              = Cardinality(TagStarts(results["redacted_transcript"]))
        /\ Restore(results["redacted_transcript"], 1, results["pii_results"])
              = results["transcript"]

\* every spliced span replaced at once, against the offsets of text: from
\* 0-based offset i on
RECURSIVE ReplaceAll(_, _, _)
ReplaceAll(text, spans, i) ==
    IF i >= Len(text)
    THEN <<>>
    ELSE IF \E e \in spans : e.start_char = i
         THEN LET e == CHOOSE x \in spans : x.start_char = i
              IN  Tag(e.label_) \o ReplaceAll(text, spans, e.end_char)
         ELSE <<text[i + 1]>> \o ReplaceAll(text, spans, i + 1)

\* C9: in _redact_pii_ner, for entities that do not overlap, given in any
\* order, every entity not yet applied still denotes the characters it
\* denoted in the input text, and the finished loop leaves the text that
\* replacing all the spliced spans at once against the input offsets gives;
\* with no entities the text is unchanged.
C9_DescendingSplice ==
    pc = "ner_loop" =>
        /\ \A k \in DOMAIN entities :
              Slice(redacted_text, entities[k].start_char, entities[k].end_char)
                 = Slice(redacted_regex, entities[k].start_char,
                         entities[k].end_char)
        /\ entities = <<>> =>
              redacted_text = ReplaceAll(redacted_regex, SplicedEnts, 0)
        /\ doc_ents = <<>> => redacted_text = redacted_regex

\* two redacted entities, given leftmost first, both spliced
C9_Witness ==
    /\ pc = "ner_loop"
    /\ entities = <<>>
    /\ Len(doc_ents) = 2
    /\ doc_ents[1].start_char < doc_ents[2].start_char
    /\ doc_ents[1].label_ = "PERSON"
    /\ doc_ents[2].label_ = "ORG"
    /\ redacted_text # redacted_regex

\* re.findall(pattern, text) from index i on: what re.sub replaces
RECURSIVE ReFindAll(_, _, _)
ReFindAll(pii_type, text, i) ==
    IF i > Len(text)
    THEN {}
    ELSE LET e == MatchAt(pii_type, text, i)
         IN  IF e # 0
             THEN {SubSeq(text, i, e - 1)} \cup ReFindAll(pii_type, text, e)
             ELSE ReFindAll(pii_type, text, i + 1)

\* the substrings the pattern pass replaced in text
RECURSIVE PatternReplaced(_, _)
PatternReplaced(text, k) ==
    IF k > Len(PatternOrder)
    THEN {}
    ELSE ReFindAll(PatternOrder[k], text, 1)
            \cup PatternReplaced(ReSub(PatternOrder[k], text, 1), k + 1)

\* the substrings the redaction stage replaced with a tag
Replaced ==
    PatternReplaced(results["transcript"], 1)
        \cup {Slice(redacted_regex, e.start_char, e.end_char) : e \in SplicedEnts}

\* C10: the stages run in the order transcribe, score, redact, summarize,
\* synthesize, each on the output of the one before: the text summarised and
\* then synthesised is the redacted transcript, so nothing the redaction
\* stage replaced appears in the summary or reaches the synthesis engine.
C10_ForwardDataFlow ==
    pc = "done" =>
        /\ stages = <<"transcribe", "score", "redact", "summarize", "synthesize">>
        /\ results["summary"] = SummarizeText(results["redacted_transcript"])
        /\ tts_text = results["summary"]
        /\ \A s \in Replaced : ~Contains(tts_text, s)

=============================================================================
